---- MODULE Spec2Model ----
(***************************************************************************)
(* A model of the js-lisp kernel: the environment chain (Env.js) and the   *)
(* binding / control macros (lambda, defun, try, let, setq, or, ...).      *)
(*                                                                         *)
(* The interpreter is modelled as a stack machine.  `stack` is the host    *)
(* call stack of macro and function invocations in progress, `env` is the  *)
(* global pointer lisp.env, `frames` is the heap of Env objects.  The      *)
(* forms a body consists of are not stored: whenever an invocation may     *)
(* resolve a further form, the next form is chosen freely, so the model    *)
(* covers every program within the bounds.                                 *)
(***************************************************************************)
EXTENDS Integers, Sequences, FiniteSets, TLC

\* ------------------------------------------------------------------ bounds
MaxFrames == 5
MaxStack == 3
MaxClosures == 2
MaxNum == 2
\* the number of forms a program consists of
MaxForms == 5

\* ------------------------------------------------------------------ values
Undefined == [t |-> "undefined", v |-> 0]
Null == [t |-> "null", v |-> 0]
True == [t |-> "boolean", v |-> 1]
False == [t |-> "boolean", v |-> 0]
Num(n) == [t |-> "number", v |-> n]
Fn(c) == [t |-> "function", v |-> c]
\* marks a key an object does not own (hasOwnProperty is false)
Absent == [t |-> "absent", v |-> 0]

\* the one string of the programs modelled, "a"
Str == [t |-> "string", v |-> 1]
\* a Macro object around the host function c, and a host object
Macro(c) == [t |-> "macro", v |-> c]
Obj(k) == [t |-> "object", v |-> k]

\* host truthiness (!!value)
Truthy(x) == \/ x.t \in {"function", "object", "string", "error", "macro"}
             \/ (x.t = "number" /\ x.v # 0)
             \/ (x.t = "boolean" /\ x.v = 1)

\* x names data and f names functions in the programs modelled
Names == {"x", "f"}
\* a built-in macro and a host object that programs name but never rebind
BuiltinNames == {"when"}
HostNames == {"obj", "window"}
\* a name that every plain object inherits from its prototype
PrototypeNames == {"toString"}
SymNames == Names \cup {"this"} \cup BuiltinNames \cup HostNames \cup PrototypeNames
NoSymbols == [s \in SymNames |-> Absent]

\* the Env whose symbols object is the host namespace, and the top-level Env
HostEnv == 1
RootEnv == 2
\* the parent field of an entry that is a plain object, not an Env
NotEnv == -1

\* contents of the host namespace when the interpreter starts
WithHostObject(global) == [global EXCEPT !["obj"] = Obj(1)]
\* the host namespace as a value: the object that its own name window refers to
Global == [t |-> "object", v |-> 0]
HostNamespaces ==
    { WithHostObject(NoSymbols), WithHostObject([NoSymbols EXCEPT !["x"] = Num(0)]) }
\* the top-level frame as the library leaves it: its macros are bound there
Builtins == [NoSymbols EXCEPT !["when"] = Macro(0)]

\* the host objects when the interpreter starts: obj has the method m, the
\* plain property k and the property o, an object with a method m of its own
HostMethod == Fn(0)
Keys == {"o", "m", "k"}
HostObjects ==
    << [o |-> Obj(2), m |-> HostMethod, k |-> Num(1)],
       [o |-> Absent, m |-> HostMethod, k |-> Absent] >>

\* object[key]: every value other than these objects has none of the keys
PropertyOf(hp, object, key) ==
    IF object.t = "object" /\ object.v \in 1..Len(hp) /\ key \in Keys
       /\ hp[object.v][key] # Absent
    THEN hp[object.v][key]
    ELSE Undefined

\* ------------------------------------------------------------------ Env.js
\* new Env(parent)
NewEnv(parent) == [parent |-> parent, symbols |-> NoSymbols]

hasOwnProperty(fr, e, s) == fr[e].symbols[s] # Absent

\* parent instanceof Env
IsEnv(fr, e) == fr[e].parent # NotEnv

\* symbols[s]: an own property, or what the object inherits
Inherited(s) == IF s \in PrototypeNames THEN HostMethod ELSE Undefined
Get(symbols, s) == IF symbols[s] # Absent THEN symbols[s] ELSE Inherited(s)

\* object[key] throws a TypeError
Unsubscriptable(object) == object.t \in {"null", "undefined", "absent"}

RECURSIVE Env_has(_, _, _)
Env_has(fr, e, s) ==
    IF hasOwnProperty(fr, e, s) THEN TRUE
    ELSE IF fr[e].parent = 0 THEN FALSE
    ELSE IF IsEnv(fr, fr[e].parent) THEN Env_has(fr, fr[e].parent, s)
    ELSE Get(fr[fr[e].parent].symbols, s) \notin {Undefined, Null}

\* a lookup that does not follow the parent link
Env_get_own(fr, e, s) ==
    IF hasOwnProperty(fr, e, s) THEN fr[e].symbols[s] ELSE Undefined

RECURSIVE Env_get(_, _, _)
Env_get(fr, e, s) ==
    IF hasOwnProperty(fr, e, s) \/ Truthy(Get(fr[e].symbols, s))
    THEN Get(fr[e].symbols, s)
    ELSE IF fr[e].parent = 0 THEN Undefined
    ELSE IF IsEnv(fr, fr[e].parent) THEN Env_get(fr, fr[e].parent, s)
    ELSE Get(fr[fr[e].parent].symbols, s)

\* value[key], of a host object or of the host namespace
Member(fr, hp, value, key) ==
    IF value = Global
    THEN IF key \in SymNames THEN Get(fr[HostEnv].symbols, key) ELSE Undefined
    ELSE PropertyOf(hp, value, key)

\* value = value[parts[i]] for i, i+1, ...; Absent when a step throws
RECURSIVE Chase(_, _, _, _, _)
Chase(fr, hp, value, parts, i) ==
    IF i > Len(parts) THEN value
    ELSE IF Unsubscriptable(value) THEN Absent
    ELSE Chase(fr, hp, Member(fr, hp, value, parts[i]), parts, i + 1)

\* Env.get of a name split at its dots; Absent when it throws
Env_get_path(fr, hp, e, parts) ==
    IF Truthy(Env_get(fr, e, parts[1])) /\ Len(parts) > 1
    THEN Chase(fr, hp, Env_get(fr, e, parts[1]), parts, 2)
    ELSE Env_get(fr, e, parts[1])

Env_let(fr, e, s, v) == [fr EXCEPT ![e].symbols[s] = v]

\* a search for the frame to create a binding in that stops where it starts
TopFrame_innermost(fr, object) == object

\* the loop of Env.set that looks for the frame below the host namespace
RECURSIVE TopFrame(_, _)
TopFrame(fr, object) ==
    IF /\ fr[object].parent \notin {0, NotEnv}
       /\ ~(IsEnv(fr, fr[object].parent) /\ fr[object].parent = HostEnv)
    THEN TopFrame(fr, fr[object].parent)
    ELSE object

\* an assignment that always writes the frame it is called on
Env_set_here(fr, e, s, v) == Env_let(fr, e, s, v)

RECURSIVE Env_set(_, _, _, _)
Env_set(fr, e, s, v) ==
    IF Env_has(fr, e, s)
    THEN IF hasOwnProperty(fr, e, s) THEN Env_let(fr, e, s, v)
         ELSE IF IsEnv(fr, fr[e].parent) THEN Env_set(fr, fr[e].parent, s, v)
         ELSE Env_let(fr, fr[e].parent, s, v)
    ELSE IF IsEnv(fr, TopFrame(fr, e)) THEN Env_let(fr, TopFrame(fr, e), s, v)
    ELSE fr

\* Env.set of a plain name throws: the loop has walked on to a parent that is
\* no Env and has no symbols
Env_set_throws(fr, e, s) == ~Env_has(fr, e, s) /\ ~IsEnv(fr, TopFrame(fr, e))

\* all parts but the last
Prefix(parts) == SubSeq(parts, 1, Len(parts) - 1)

\* an assignment that never reaches the object
Env_set_path_dropped(fr, hp, e, parts, v) == hp

\* Env.set of a dotted name: the host objects after object[last] = value
Env_set_path(fr, hp, e, parts, v) ==
    LET object == Env_get_path(fr, hp, e, Prefix(parts))
        key == parts[Len(parts)]
    IN IF object.t = "object" /\ object.v \in 1..Len(hp) /\ key \in Keys
       THEN [hp EXCEPT ![object.v][key] = v]
       ELSE hp

\* and the host namespace after it, which is the object when the prefix names it
Env_set_path_global(fr, hp, e, parts, v) ==
    LET object == Env_get_path(fr, hp, e, Prefix(parts))
        key == parts[Len(parts)]
    IN IF object = Global /\ key \in SymNames
       THEN Env_let(fr, HostEnv, key, v)
       ELSE fr

\* the frame whose binding of s a lookup from e finds (0: none)
RECURSIVE Owner(_, _, _)
Owner(fr, e, s) ==
    IF e \notin DOMAIN fr THEN 0
    ELSE IF hasOwnProperty(fr, e, s) THEN e
    ELSE Owner(fr, fr[e].parent, s)

VARIABLES frames, env, closures, stack, mode, val, err, unwound, returned,
          tryForms, forms, heap

vars == <<frames, env, closures, stack, mode, val, err, unwound, returned,
          tryForms, forms, heap>>

\* ------------------------------------------------------------------ forms
\* the error value of a user-level (throw v), the host's TypeError, and the
\* Error a macro throws when it gets too few arguments
UserErrors == { Num(1) }
TypeError == [t |-> "error", v |-> 0]
ArityError == [t |-> "error", v |-> 1]
NotFunctionError == [t |-> "error", v |-> 2]
\* the Error of Env.set: "<name> is unsubscriptable"
UnsubscriptableError == [t |-> "error", v |-> 3]

\* self-evaluating atoms a program may contain
Atoms == { Null, Num(1) }
FunctionNames == {"f"}
DataNames == {"x"}
ArgLists == { <<>>, <<"x">> }
LetSets == { <<"x">>, <<"x", "f">> }
Arguments == { <<>>, <<Num(2)>> }

\* a (catch ...) clause as the reader produces it, and the absent clause
NoCatch == [head |-> "none", length |-> 0, arglist |-> <<>>]
CatchClauses ==
    { [head |-> "catch", length |-> 2, arglist |-> <<"x">>],
      [head |-> "catch", length |-> 1, arglist |-> <<>>] }
\* the last expression of each try form that stands in a function body
TryFormTable == << [head |-> "catch", length |-> 2, arglist |-> <<"x">>] >>

\* an invocation in progress on the host call stack
BaseAct ==
    [kind |-> "driver", op |-> "none", names |-> <<>>, i |-> 1, n |-> 0,
     prev |-> Undefined, fenv |-> 0,
     tempEnv |-> 0, ret |-> Null, env0 |-> 0, form |-> 0,
     catchExpression |-> NoCatch, caught |-> FALSE, trail |-> <<>>]

\* the invocation an error has left last (kind, and lisp.env when it was entered)
NotUnwound == [kind |-> "none", env0 |-> 0]

\* the invocation that has returned in the last step (kind, how many of its n
\* argument forms it had taken up, and the forms it has resolved with their values)
NotReturned == [kind |-> "none", i |-> 0, n |-> 0, trail |-> <<>>]

Top == stack[Len(stack)]
Pop == SubSeq(stack, 1, Len(stack) - 1)
Push(a) == Append(stack, a)
ReplaceTop(a) == [stack EXCEPT ![Len(stack)] = a]

Returning == [kind |-> Top.kind, i |-> Top.i, n |-> Top.n, trail |-> Top.trail]

FunctionKinds == {"lambda", "defun"}
InFunction == \E k \in 1..Len(stack) : stack[k].kind \in FunctionKinds

\* the interpreter before a program of at most `size` forms is fed to it
Start(size) ==
    /\ \E global \in HostNamespaces :
          frames = << [parent |-> 0, symbols |-> global],
                      [parent |-> HostEnv, symbols |-> Builtins] >>
    /\ env = RootEnv
    /\ closures = <<>>
    /\ stack = <<>>
    /\ mode = "eval"
    /\ val = Undefined
    /\ err = Undefined
    /\ unwound = NotUnwound
    /\ returned = NotReturned
    /\ tryForms = TryFormTable
    /\ heap = HostObjects
    /\ forms = size

\* an error raised by the host or by (throw v): the invocations in progress stay
\* on the stack until they are unwound
Raise(e) ==
    /\ mode' = "throw"
    /\ err' = e
    /\ unwound' = NotUnwound
    /\ val' = Undefined
    /\ UNCHANGED <<frames, env, closures, stack, tryForms>>

\* the programs modelled bind f to functions only and x to other values only:
\* the invocation that receives v, if it binds a name, binds one of v's sort
Sorted(s, v) == (s \in FunctionNames) <=> (v.t = "function")
Accepts(stk, v) ==
    \/ stk = <<>>
    \/ /\ stk # <<>>
       /\ LET a == stk[Len(stk)] IN
             /\ a.kind = "setq" => Sorted(a.names[1], v)
             /\ (a.kind = "let" /\ a.i <= Len(a.names)) => Sorted(a.names[a.i], v)

LogicKinds == {"or", "predicate", "comparator"}
ControlKinds == {"if", "when", "funcall"}

\* the invocation on top may resolve one more form
CanResolve ==
    /\ mode = "eval"
    /\ forms > 0
    /\ forms' = forms - 1
    /\ \/ stack = <<>>
       \/ /\ stack # <<>>
          /\ \/ Top.kind \in {"let", "lambda", "defun", "setq"}
             \/ Top.kind \in LogicKinds
             \/ Top.kind \in ControlKinds
             \/ Top.kind = "try" /\ ~Top.caught

\* resolve(form) of a form that is neither a list nor a symbol
ResolveAtom(v) ==
    /\ CanResolve
    /\ Accepts(stack, v)
    /\ val' = v
    /\ mode' = "value"
    /\ UNCHANGED <<frames, env, closures, stack, err, unwound, tryForms>>
    /\ UNCHANGED heap
    /\ returned' = NotReturned

\* resolve(form) of a symbol: lisp.env.get
ResolveSymbol(s) ==
    /\ CanResolve
    /\ IF env = 0 THEN Raise(TypeError)
       ELSE /\ Accepts(stack, Env_get(frames, env, s))
            /\ val' = Env_get(frames, env, s)
            /\ mode' = "value"
            /\ UNCHANGED <<frames, env, closures, stack, err, unwound, tryForms>>
    /\ UNCHANGED heap
    /\ returned' = NotReturned

\* resolve of (1+ s) for a symbol s bound to a number
ResolveIncr(s) ==
    /\ CanResolve
    /\ env # 0
    /\ Env_get(frames, env, s).t = "number"
    /\ Env_get(frames, env, s).v < MaxNum
    /\ Accepts(stack, Num(0))
    /\ val' = Num(Env_get(frames, env, s).v + 1)
    /\ mode' = "value"
    /\ UNCHANGED <<frames, env, closures, stack, err, unwound, tryForms>>
    /\ UNCHANGED heap
    /\ returned' = NotReturned

\* (throw v)
Throw(e) ==
    /\ CanResolve
    /\ Raise(e)
    /\ UNCHANGED heap
    /\ returned' = NotReturned

\* the driver takes the value of a top-level form
Driver ==
    /\ mode = "value"
    /\ stack = <<>>
    /\ mode' = "eval"
    /\ val' = Undefined
    /\ UNCHANGED <<frames, env, closures, stack, err, unwound, tryForms>>
    /\ UNCHANGED forms
    /\ UNCHANGED heap
    /\ returned' = NotReturned

\* an error reaches the top level and is reported to the driver
Uncaught ==
    /\ mode = "throw"
    /\ stack = <<>>
    /\ mode' = "eval"
    /\ err' = Undefined
    /\ unwound' = NotUnwound
    /\ UNCHANGED <<frames, env, closures, stack, val, tryForms>>
    /\ UNCHANGED forms
    /\ UNCHANGED heap
    /\ returned' = NotReturned

\* ------------------------------------------------------------------ let, setq
\* (let ((name expr) ...) body...): entry, up to the first binding expression
macro_let(letset) ==
    /\ CanResolve
    /\ Len(stack) < MaxStack
    /\ Len(frames) < MaxFrames
    /\ frames' = Append(frames, NewEnv(env))
    /\ env' = Len(frames) + 1
    /\ stack' = Push([BaseAct EXCEPT !.kind = "let", !.names = letset, !.env0 = env])
    /\ UNCHANGED <<closures, mode, val, err, unwound, tryForms>>
    /\ UNCHANGED heap
    /\ returned' = NotReturned

\* a let that binds nothing before its body (its names are bound all at once)
let_bind_deferred ==
    /\ mode = "value"
    /\ stack # <<>>
    /\ Top.kind = "let"
    /\ Top.i <= Len(Top.names)
    /\ stack' = ReplaceTop([Top EXCEPT !.i = @ + 1])
    /\ mode' = "eval"
    /\ val' = Undefined
    /\ UNCHANGED <<frames, env, closures, err, unwound, tryForms, forms>>
    /\ UNCHANGED heap
    /\ returned' = NotReturned

\* the value of binding expression i has been resolved: lisp.env.let(symbol, value)
let_bind ==
    /\ mode = "value"
    /\ stack # <<>>
    /\ Top.kind = "let"
    /\ Top.i <= Len(Top.names)
    /\ IF env = 0 THEN Raise(TypeError)
       ELSE /\ frames' = Env_let(frames, env, Top.names[Top.i], val)
            /\ stack' = ReplaceTop([Top EXCEPT !.i = @ + 1])
            /\ mode' = "eval"
            /\ val' = Undefined
            /\ UNCHANGED <<env, closures, err, unwound, tryForms>>
    /\ UNCHANGED forms
    /\ UNCHANGED heap
    /\ returned' = NotReturned

InBody(a) ==
    \/ a.kind = "let" /\ a.i > Len(a.names)
    \/ a.kind \in FunctionKinds
    \/ a.kind = "try" /\ ~a.caught

\* ret = resolve(body[i]) in the body loop of let, of a function and of try
\* (whose i counts the body expressions)
body_value ==
    /\ mode = "value"
    /\ stack # <<>>
    /\ InBody(Top)
    /\ stack' = ReplaceTop([Top EXCEPT !.ret = val,
                                       !.i = IF Top.kind = "try" THEN @ + 1 ELSE @])
    /\ mode' = "eval"
    /\ val' = Undefined
    /\ UNCHANGED <<frames, env, closures, err, unwound, tryForms>>
    /\ UNCHANGED forms
    /\ UNCHANGED heap
    /\ returned' = NotReturned

\* the end of let: lisp.env = lisp.env.parent; return ret
let_exit ==
    /\ mode = "eval"
    /\ stack # <<>>
    /\ Top.kind = "let"
    /\ Top.i > Len(Top.names)
    /\ IF env = 0 THEN Raise(TypeError)
       ELSE /\ Accepts(Pop, Top.ret)
            /\ env' = frames[env].parent
            /\ stack' = Pop
            /\ val' = Top.ret
            /\ mode' = "value"
            /\ UNCHANGED <<frames, closures, err, unwound, tryForms>>
    /\ UNCHANGED forms
    /\ UNCHANGED heap
    /\ returned' = IF mode' = "value" THEN Returning ELSE NotReturned

\* (setq symbol expr): entry, up to resolve(args[1])
macro_setq(symbol) ==
    /\ CanResolve
    /\ Len(stack) < MaxStack
    /\ stack' = Push([BaseAct EXCEPT !.kind = "setq", !.names = <<symbol>>, !.env0 = env])
    /\ UNCHANGED <<frames, env, closures, mode, val, err, unwound, tryForms>>
    /\ UNCHANGED heap
    /\ returned' = NotReturned

\* a setq that assigns the value and returns nil
setq_assign_nil ==
    /\ mode = "value"
    /\ stack # <<>>
    /\ Top.kind = "setq"
    /\ IF env = 0 THEN Raise(TypeError)
       ELSE /\ Accepts(Pop, Null)
            /\ frames' = Env_set(frames, env, Top.names[1], val)
            /\ stack' = Pop
            /\ val' = Null
            /\ UNCHANGED <<env, closures, mode, err, unwound, tryForms>>
    /\ UNCHANGED forms
    /\ UNCHANGED heap
    /\ returned' = IF mode' = "value" THEN Returning ELSE NotReturned

\* the value has been resolved: lisp.env.set(symbol, value); return value
setq_assign ==
    /\ mode = "value"
    /\ stack # <<>>
    /\ Top.kind = "setq"
    /\ IF env = 0 THEN Raise(TypeError)
       ELSE /\ Accepts(Pop, val)
            /\ frames' = Env_set(frames, env, Top.names[1], val)
            /\ stack' = Pop
            /\ UNCHANGED <<env, closures, mode, val, err, unwound, tryForms>>
    /\ UNCHANGED forms
    /\ UNCHANGED heap
    /\ returned' = IF mode' = "value" THEN Returning ELSE NotReturned

\* ------------------------------------------------------------------ lambda, defun
Receiver == [t |-> "object", v |-> 0]

Argument(args, i) == IF i <= Len(args) THEN args[i] ELSE Undefined

\* (lambda (arglist) body...): the Env is created here, once per lambda form
macro_lambda(arglist) ==
    /\ CanResolve
    /\ Len(frames) < MaxFrames
    /\ Len(closures) < MaxClosures
    /\ Accepts(stack, Fn(0))
    /\ frames' = Append(frames, NewEnv(env))
    /\ closures' = Append(closures,
          [kind |-> "lambda", env |-> Len(frames) + 1, arglist |-> arglist,
           site |-> env])
    /\ val' = Fn(Len(closures) + 1)
    /\ mode' = "value"
    /\ UNCHANGED <<env, stack, err, unwound, tryForms>>
    /\ UNCHANGED heap
    /\ returned' = NotReturned

\* lisp.env.let(arglist[i], arguments[i]) for i, i+1, ...
RECURSIVE LetParams(_, _, _, _, _)
LetParams(fr, e, arglist, args, i) ==
    IF i > Len(arglist) THEN fr
    ELSE LetParams(Env_let(fr, e, arglist[i], Argument(args, i)), e, arglist, args, i + 1)

\* lisp.env.set(arglist[i], arguments[i]) for i, i+1, ...
RECURSIVE SetParams(_, _, _, _, _)
SetParams(fr, e, arglist, args, i) ==
    IF i > Len(arglist) THEN fr
    ELSE SetParams(Env_set(fr, e, arglist[i], Argument(args, i)), e, arglist, args, i + 1)

\* the function a head symbol names (0: the symbol names no function)
Callee(s) ==
    IF env = 0 THEN 0
    ELSE IF Env_get(frames, env, s).t = "function" THEN Env_get(frames, env, s).v
    ELSE 0

\* a call of a function made by lambda, up to its first body form
lambda_call(s, args) ==
    /\ CanResolve
    /\ Len(stack) < MaxStack
    /\ Callee(s) # 0
    /\ closures[Callee(s)].kind = "lambda"
    /\ LET f == closures[Callee(s)] IN
          /\ env' = f.env
          /\ frames' = LetParams(Env_let(frames, f.env, "this", Receiver),
                                 f.env, f.arglist, args, 1)
          /\ stack' = Push([BaseAct EXCEPT !.kind = "lambda", !.names = f.arglist,
                               !.fenv = f.env, !.tempEnv = env, !.env0 = env])
    /\ UNCHANGED <<closures, mode, val, err, unwound, tryForms>>
    /\ UNCHANGED heap
    /\ returned' = NotReturned

\* a return that skips lisp.env = tempEnv
lambda_return_unrestored ==
    /\ mode = "eval"
    /\ stack # <<>>
    /\ Top.kind = "lambda"
    /\ Accepts(Pop, Top.ret)
    /\ stack' = Pop
    /\ val' = Top.ret
    /\ mode' = "value"
    /\ UNCHANGED <<frames, env, closures, err, unwound, tryForms>>
    /\ UNCHANGED forms
    /\ UNCHANGED heap
    /\ returned' = IF mode' = "value" THEN Returning ELSE NotReturned

\* the end of a lambda function: lisp.env = tempEnv; return ret
lambda_return ==
    /\ mode = "eval"
    /\ stack # <<>>
    /\ Top.kind = "lambda"
    /\ Accepts(Pop, Top.ret)
    /\ env' = Top.tempEnv
    /\ stack' = Pop
    /\ val' = Top.ret
    /\ mode' = "value"
    /\ UNCHANGED <<frames, closures, err, unwound, tryForms>>
    /\ UNCHANGED forms
    /\ UNCHANGED heap
    /\ returned' = IF mode' = "value" THEN Returning ELSE NotReturned

\* (defun name (arglist) body...)
macro_defun(name, arglist) ==
    /\ CanResolve
    /\ Len(closures) < MaxClosures
    /\ IF env = 0 THEN Raise(TypeError)
       ELSE /\ Accepts(stack, Undefined)
            /\ closures' = Append(closures,
                  [kind |-> "defun", env |-> 0, arglist |-> arglist,
                   site |-> env])
            /\ frames' = Env_set(frames, env, name, Fn(Len(closures) + 1))
            /\ val' = Undefined
            /\ mode' = "value"
            /\ UNCHANGED <<env, stack, err, unwound, tryForms>>
    /\ UNCHANGED heap
    /\ returned' = NotReturned

\* a call of a function installed by defun, up to its first body form
defun_call(s, args) ==
    /\ CanResolve
    /\ Len(stack) < MaxStack
    /\ Len(frames) < MaxFrames
    /\ Callee(s) # 0
    /\ closures[Callee(s)].kind = "defun"
    /\ LET f == closures[Callee(s)]
           e == Len(frames) + 1
       IN /\ env' = e
          /\ frames' = SetParams(Append(frames, NewEnv(env)), e, f.arglist, args, 1)
          /\ stack' = Push([BaseAct EXCEPT !.kind = "defun", !.names = f.arglist,
                               !.env0 = env])
    /\ UNCHANGED <<closures, mode, val, err, unwound, tryForms>>
    /\ UNCHANGED heap
    /\ returned' = NotReturned

\* the end of a defun function: lisp.env = lisp.env.parent; return ret
defun_return ==
    /\ mode = "eval"
    /\ stack # <<>>
    /\ Top.kind = "defun"
    /\ IF env = 0 THEN Raise(TypeError)
       ELSE /\ Accepts(Pop, Top.ret)
            /\ env' = frames[env].parent
            /\ stack' = Pop
            /\ val' = Top.ret
            /\ mode' = "value"
            /\ UNCHANGED <<frames, closures, err, unwound, tryForms>>
    /\ UNCHANGED forms
    /\ UNCHANGED heap
    /\ returned' = IF mode' = "value" THEN Returning ELSE NotReturned

\* ------------------------------------------------------------------ try
\* the catch clause try finds in its last expression (lines 78 to 84)
CatchOf(lastExpression) ==
    IF lastExpression.head = "catch" THEN lastExpression ELSE NoCatch

\* (try expr... (catch ...)?): entry.  A form read at top level is fresh (form 0);
\* a form of a function body is the same list object at every call.
macro_try(form, lastExpression) ==
    /\ CanResolve
    /\ IF form = 0
       THEN lastExpression \in
               (IF InFunction THEN {NoCatch} ELSE CatchClauses \cup {NoCatch})
       ELSE InFunction /\ lastExpression = tryForms[form]
    /\ Len(stack) + (IF CatchOf(lastExpression) = NoCatch THEN 0 ELSE 1) < MaxStack
    /\ stack' = Push([BaseAct EXCEPT !.kind = "try", !.form = form,
                         !.catchExpression = CatchOf(lastExpression), !.env0 = env])
    /\ UNCHANGED <<frames, env, closures, mode, val, err, unwound, tryForms>>
    /\ UNCHANGED heap
    /\ returned' = NotReturned

\* the last expression of the form is a body expression and a lambda form
TrailingLambda(a) ==
    a.form # 0 /\ a.catchExpression = NoCatch /\ tryForms[a.form].head = "lambda"

\* the end of the try block without an error: return ret
try_exit ==
    /\ mode = "eval"
    /\ stack # <<>>
    /\ Top.kind = "try"
    /\ ~Top.caught
    /\ IF TrailingLambda(Top)
       THEN /\ Len(frames) < MaxFrames
            /\ Len(closures) < MaxClosures
            /\ Accepts(Pop, Fn(0))
            /\ frames' = Append(frames, NewEnv(env))
            /\ closures' = Append(closures,
                  [kind |-> "lambda", env |-> Len(frames) + 1,
                   arglist |-> tryForms[Top.form].arglist, site |-> env])
            /\ val' = Fn(Len(closures) + 1)
       ELSE /\ Accepts(Pop, Top.ret)
            /\ val' = Top.ret
            /\ UNCHANGED <<frames, closures>>
    /\ stack' = Pop
    /\ mode' = "value"
    /\ UNCHANGED <<env, err, unwound, tryForms>>
    /\ UNCHANGED forms
    /\ UNCHANGED heap
    /\ returned' = IF mode' = "value" THEN Returning ELSE NotReturned

\* the catch expression after lines 94 to 97
AsLambda(c) ==
    [head |-> "lambda", length |-> 2,
     arglist |-> IF c.length = 1 THEN <<>> ELSE c.arglist]

\* catch (e) with a catch expression: the clause becomes a lambda form, is
\* resolved and called with the error
try_catch ==
    /\ mode = "throw"
    /\ stack # <<>>
    /\ Top.kind = "try"
    /\ ~Top.caught
    /\ Top.catchExpression # NoCatch
    /\ Len(frames) < MaxFrames
    /\ LET callback == AsLambda(Top.catchExpression)
           e == Len(frames) + 1
       IN /\ tryForms' = IF Top.form = 0 THEN tryForms
                         ELSE [tryForms EXCEPT ![Top.form] = callback]
          /\ frames' = LetParams(Env_let(Append(frames, NewEnv(env)), e, "this", Receiver),
                                 e, callback.arglist, <<err>>, 1)
          /\ env' = e
          /\ stack' = Append(ReplaceTop([Top EXCEPT !.caught = TRUE]),
                             [BaseAct EXCEPT !.kind = "lambda", !.names = callback.arglist,
                                 !.fenv = e, !.tempEnv = env, !.env0 = env])
    /\ mode' = "eval"
    /\ err' = Undefined
    /\ unwound' = NotUnwound
    /\ UNCHANGED <<closures, val>>
    /\ UNCHANGED forms
    /\ UNCHANGED heap
    /\ returned' = NotReturned

\* callback(e) has returned: return ret
try_return ==
    /\ mode = "value"
    /\ stack # <<>>
    /\ Top.kind = "try"
    /\ Top.caught
    /\ Accepts(Pop, Top.ret)
    /\ stack' = Pop
    /\ val' = Top.ret
    /\ UNCHANGED <<frames, env, closures, mode, err, unwound, tryForms>>
    /\ UNCHANGED forms
    /\ UNCHANGED heap
    /\ returned' = IF mode' = "value" THEN Returning ELSE NotReturned

\* an invocation that ends the error that reaches it and returns its ret
Unwind_swallowed ==
    /\ mode = "throw"
    /\ stack # <<>>
    /\ ~(Top.kind = "try" /\ ~Top.caught /\ Top.catchExpression # NoCatch)
    /\ stack' = Pop
    /\ mode' = "value"
    /\ val' = Top.ret
    /\ err' = Undefined
    /\ unwound' = [kind |-> Top.kind, env0 |-> Top.env0]
    /\ UNCHANGED <<frames, env, closures, tryForms>>
    /\ UNCHANGED forms
    /\ UNCHANGED heap
    /\ returned' = NotReturned

\* an error leaves an invocation that does not catch it: the rest of the
\* invocation is skipped, lisp.env stays as it is
Unwind ==
    /\ mode = "throw"
    /\ stack # <<>>
    /\ ~(Top.kind = "try" /\ ~Top.caught /\ Top.catchExpression # NoCatch)
    /\ stack' = Pop
    /\ unwound' = [kind |-> Top.kind, env0 |-> Top.env0]
    /\ UNCHANGED <<frames, env, closures, mode, val, err, tryForms>>
    /\ UNCHANGED forms
    /\ UNCHANGED heap
    /\ returned' = NotReturned

\* ------------------------------------------------------------------ specification
Next ==
    \/ \E v \in Atoms : ResolveAtom(v)
    \/ \E s \in Names : ResolveSymbol(s)
    \/ \E s \in DataNames : ResolveIncr(s)
    \/ \E e \in UserErrors : Throw(e)
    \/ Driver
    \/ Uncaught
    \/ \E letset \in LetSets : macro_let(letset)
    \/ let_bind
    \/ body_value
    \/ let_exit
    \/ \E s \in Names : macro_setq(s)
    \/ setq_assign
    \/ \E arglist \in ArgLists : macro_lambda(arglist)
    \/ \E s \in FunctionNames, args \in Arguments : lambda_call(s, args)
    \/ lambda_return
    \/ \E s \in FunctionNames, arglist \in ArgLists : macro_defun(s, arglist)
    \/ \E s \in FunctionNames, args \in Arguments : defun_call(s, args)
    \/ defun_return
    \/ \E form \in 0..Len(TryFormTable), c \in CatchClauses \cup {NoCatch} \cup
            {AsLambda(TryFormTable[k]) : k \in 1..Len(TryFormTable)} :
          macro_try(form, c)
    \/ try_exit
    \/ try_catch
    \/ try_return
    \/ Unwind

Init == Start(MaxForms)

Spec == Init /\ [][Next]_vars

\* programs of let, setq and lambda only
ClosureForms == 6

NextClosure ==
    \/ \E v \in Atoms : ResolveAtom(v)
    \/ \E s \in Names : ResolveSymbol(s)
    \/ \E s \in DataNames : ResolveIncr(s)
    \/ Driver
    \/ \E letset \in LetSets : macro_let(letset)
    \/ let_bind
    \/ body_value
    \/ let_exit
    \/ \E s \in Names : macro_setq(s)
    \/ setq_assign
    \/ \E arglist \in ArgLists : macro_lambda(arglist)
    \/ \E s \in FunctionNames, args \in Arguments : lambda_call(s, args)
    \/ lambda_return

SpecClosure == Start(ClosureForms) /\ [][NextClosure]_vars

\* programs of defun, try and throw only
TryForms == 7

NextTry ==
    \/ \E v \in Atoms : ResolveAtom(v)
    \/ \E e \in UserErrors : Throw(e)
    \/ Driver
    \/ Uncaught
    \/ body_value
    \/ lambda_return
    \/ \E s \in FunctionNames, arglist \in ArgLists : macro_defun(s, arglist)
    \/ \E s \in FunctionNames, args \in Arguments : defun_call(s, args)
    \/ defun_return
    \/ \E form \in 0..Len(TryFormTable), c \in CatchClauses \cup {NoCatch} \cup
            {AsLambda(TryFormTable[k]) : k \in 1..Len(TryFormTable)} :
          macro_try(form, c)
    \/ try_exit
    \/ try_catch
    \/ try_return
    \/ Unwind

SpecTry == Start(TryForms) /\ [][NextTry]_vars

\* ------------------------------------------------------------------ logic
\* the most argument forms a logical or comparison form is written with
MaxArgs == 3

\* the most logical and comparison forms in progress at a time
MaxLogicDepth == 1
LogicDepth == Cardinality({ k \in 1..Len(stack) : stack[k].kind \in LogicKinds })

\* the macros that hand their arguments to predicate(), with their tests
PredicateOps ==
    {"and", "not", "is-true", "is-false", "is-null", "is-undefined", "is-string",
     "is-number", "is-boolean", "is-function", "is-object"}

\* typeof(value)
TypeOf(x) == IF x.t \in {"null", "error"} THEN "object" ELSE x.t

Test(op, value) ==
    CASE op = "and" -> Truthy(value)
      [] op = "not" -> ~Truthy(value)
      [] op = "is-true" -> value = True
      [] op = "is-false" -> value = False
      [] op = "is-null" -> value = Null
      [] op = "is-undefined" -> value = Undefined
      [] op = "is-string" -> TypeOf(value) = "string"
      [] op = "is-number" -> TypeOf(value) = "number"
      [] op = "is-boolean" -> TypeOf(value) = "boolean"
      [] op = "is-function" -> TypeOf(value) = "function"
      [] op = "is-object" -> TypeOf(value) = "object"

\* the macros that hand their arguments to comparator(), with their tests on
\* the values of the programs modelled (the string "a" is no numeral; objects
\* and functions compare by identity and convert to no number)
ComparatorOps == {"==", "===", "!=", "!==", "<", ">", "<=", ">="}

IsNaN(x) == x.t \notin {"number", "boolean", "null"}
ToNumber(x) == IF x.t = "null" THEN 0 ELSE x.v

LooseEquals(a, b) ==
    IF a.t = b.t THEN a = b
    ELSE IF a.t \in {"null", "undefined"} \/ b.t \in {"null", "undefined"}
    THEN a.t \in {"null", "undefined"} /\ b.t \in {"null", "undefined"}
    ELSE ~IsNaN(a) /\ ~IsNaN(b) /\ ToNumber(a) = ToNumber(b)

LessThan(a, b) ==
    IF a.t = "string" /\ b.t = "string" THEN a.v < b.v
    ELSE ~IsNaN(a) /\ ~IsNaN(b) /\ ToNumber(a) < ToNumber(b)

LessOrEqual(a, b) ==
    IF a.t = "string" /\ b.t = "string" THEN a.v <= b.v
    ELSE ~IsNaN(a) /\ ~IsNaN(b) /\ ToNumber(a) <= ToNumber(b)

Compare(op, a, b) ==
    CASE op = "==" -> LooseEquals(a, b)
      [] op = "===" -> a = b
      [] op = "!=" -> ~LooseEquals(a, b)
      [] op = "!==" -> a # b
      [] op = "<" -> LessThan(a, b)
      [] op = ">" -> LessThan(b, a)
      [] op = "<=" -> LessOrEqual(a, b)
      [] op = ">=" -> LessOrEqual(b, a)

\* the invocation on top returns v to its caller
Return(v) ==
    /\ Accepts(Pop, v)
    /\ stack' = Pop
    /\ val' = v
    /\ mode' = "value"

\* the invocation on top goes on to its next argument form
NextArgument(value) ==
    /\ stack' = ReplaceTop([Top EXCEPT !.i = Top.i + 1, !.prev = value])
    /\ mode' = "eval"
    /\ val' = Undefined

\* (or e1 ... en)
macro_or(n) ==
    /\ CanResolve
    /\ IF n = 0
       THEN /\ Accepts(stack, False)
            /\ val' = False
            /\ mode' = "value"
            /\ UNCHANGED stack
       ELSE /\ Len(stack) < MaxStack
            /\ LogicDepth < MaxLogicDepth
            /\ stack' = Push([BaseAct EXCEPT !.kind = "or", !.op = "or", !.n = n,
                                             !.env0 = env])
            /\ UNCHANGED <<mode, val>>
    /\ UNCHANGED <<frames, env, closures, err, unwound, tryForms>>
    /\ UNCHANGED heap
    /\ returned' = NotReturned

\* an or that resolves every argument form before it answers
or_value_eager ==
    /\ mode = "value"
    /\ stack # <<>>
    /\ Top.kind = "or"
    /\ IF Top.i = Top.n THEN Return(IF Truthy(val) \/ Top.prev = True THEN True ELSE False)
       ELSE NextArgument(IF Truthy(val) \/ Top.prev = True THEN True ELSE False)
    /\ UNCHANGED <<frames, env, closures, err, unwound, tryForms, forms>>
    /\ UNCHANGED heap
    /\ returned' = IF mode' = "value" THEN Returning ELSE NotReturned

\* a step of the loop of or: resolve(arguments[i]) has returned
or_value ==
    /\ mode = "value"
    /\ stack # <<>>
    /\ Top.kind = "or"
    /\ IF Truthy(val) THEN Return(True)
       ELSE IF Top.i = Top.n THEN Return(False)
       ELSE NextArgument(val)
    /\ UNCHANGED <<frames, env, closures, err, unwound, tryForms, forms>>
    /\ UNCHANGED heap
    /\ returned' = IF mode' = "value" THEN Returning ELSE NotReturned

\* (and ...), (not ...) and the is-* macros
macro_predicate(op, n) ==
    /\ CanResolve
    /\ IF n = 0 /\ op = "not"
       THEN Raise(ArityError)
       ELSE /\ IF n = 0
               THEN /\ Accepts(stack, True)
                    /\ val' = True
                    /\ mode' = "value"
                    /\ UNCHANGED stack
               ELSE /\ Len(stack) < MaxStack
                    /\ LogicDepth < MaxLogicDepth
                    /\ stack' = Push([BaseAct EXCEPT !.kind = "predicate", !.op = op,
                                                     !.n = n, !.env0 = env])
                    /\ UNCHANGED <<mode, val>>
            /\ UNCHANGED <<frames, env, closures, err, unwound, tryForms>>
    /\ UNCHANGED heap
    /\ returned' = NotReturned

\* a step of predicate(): an argument form has been resolved
predicate_value ==
    /\ mode = "value"
    /\ stack # <<>>
    /\ Top.kind = "predicate"
    /\ IF ~Test(Top.op, val) THEN Return(False)
       ELSE IF Top.i = Top.n THEN Return(True)
       ELSE NextArgument(val)
    /\ UNCHANGED <<frames, env, closures, err, unwound, tryForms, forms>>
    /\ UNCHANGED heap
    /\ returned' = IF mode' = "value" THEN Returning ELSE NotReturned

\* a comparison macro that takes up its first argument form whatever their number
macro_comparator_unchecked(op, n) ==
    /\ CanResolve
    /\ Len(stack) < MaxStack
    /\ LogicDepth < MaxLogicDepth
    /\ stack' = Push([BaseAct EXCEPT !.kind = "comparator", !.op = op,
                                     !.n = n, !.env0 = env])
    /\ UNCHANGED <<frames, env, closures, mode, val, err, unwound, tryForms>>
    /\ UNCHANGED heap
    /\ returned' = NotReturned

\* the comparison macros
macro_comparator(op, n) ==
    /\ CanResolve
    /\ IF n < 2
       THEN Raise(ArityError)
       ELSE /\ Len(stack) < MaxStack
            /\ LogicDepth < MaxLogicDepth
            /\ stack' = Push([BaseAct EXCEPT !.kind = "comparator", !.op = op,
                                             !.n = n, !.env0 = env])
            /\ UNCHANGED <<frames, env, closures, mode, val, err, unwound, tryForms>>
    /\ UNCHANGED heap
    /\ returned' = NotReturned

\* a step of comparator(): an argument form has been resolved
comparator_value ==
    /\ mode = "value"
    /\ stack # <<>>
    /\ Top.kind = "comparator"
    /\ IF Top.i >= 2 /\ ~Compare(Top.op, Top.prev, val) THEN Return(False)
       ELSE IF Top.i = Top.n THEN Return(True)
       ELSE NextArgument(val)
    /\ UNCHANGED <<frames, env, closures, err, unwound, tryForms, forms>>
    /\ UNCHANGED heap
    /\ returned' = IF mode' = "value" THEN Returning ELSE NotReturned

\* programs of logical and comparison forms, atoms, symbols and setq
LogicForms == 5
LogicAtoms == { Null, True, False, Num(1), Str }

NextLogic ==
    \/ \E v \in LogicAtoms : ResolveAtom(v)
    \/ \E s \in DataNames : ResolveSymbol(s)
    \/ Driver
    \/ Uncaught
    \/ Unwind
    \/ \E s \in DataNames : macro_setq(s)
    \/ setq_assign
    \/ \E n \in 0..MaxArgs : macro_or(n)
    \/ or_value
    \/ \E op \in PredicateOps, n \in 0..MaxArgs : macro_predicate(op, n)
    \/ predicate_value
    \/ \E op \in ComparatorOps, n \in 0..MaxArgs : macro_comparator(op, n)
    \/ comparator_value

SpecLogic == Start(LogicForms) /\ [][NextLogic]_vars


\* programs of let, setq, try and throw, where a let may bind a name twice
LetForms == 6
LetAtoms == { Null }
TwiceLetSets == { <<"x">>, <<"x", "x">> }

NextLet ==
    \/ \E v \in LetAtoms : ResolveAtom(v)
    \/ \E s \in DataNames : ResolveSymbol(s)
    \/ \E s \in DataNames : ResolveIncr(s)
    \/ \E e \in UserErrors : Throw(e)
    \/ Driver
    \/ Uncaught
    \/ \E letset \in TwiceLetSets : macro_let(letset)
    \/ let_bind
    \/ body_value
    \/ let_exit
    \/ \E s \in DataNames : macro_setq(s)
    \/ setq_assign
    \/ \E c \in CatchClauses \cup {NoCatch} : macro_try(0, c)
    \/ try_exit
    \/ try_catch
    \/ lambda_return
    \/ try_return
    \/ Unwind

SpecLet == Start(LetForms) /\ [][NextLet]_vars

\* programs in which a function with the parameter x assigns to x in its body,
\* around let and try blocks
ParamForms == 9
ParamArgs == { <<Num(2)>> }

NextParam ==
    \/ \E v \in LetAtoms : ResolveAtom(v)
    \/ \E s \in DataNames : ResolveIncr(s)
    \/ \E e \in UserErrors : Throw(e)
    \/ Driver
    \/ Uncaught
    \/ macro_let(<<"x">>)
    \/ let_bind
    \/ body_value
    \/ let_exit
    \/ \E s \in Names : macro_setq(s)
    \/ setq_assign
    \/ macro_lambda(<<"x">>)
    \/ \E s \in FunctionNames, args \in ParamArgs : lambda_call(s, args)
    \/ lambda_return
    \/ \E form \in 1..Len(TryFormTable) : macro_try(form, tryForms[form])
    \/ try_exit
    \/ try_catch
    \/ try_return
    \/ Unwind

SpecParam == Start(ParamForms) /\ [][NextParam]_vars

\* ------------------------------------------------------------------ control
\* the argument forms the invocation on top has resolved, with the value of
\* each, once the form it is waiting for has returned val
Seen == Append(Top.trail, [i |-> Top.i, v |-> val])

\* the invocation on top goes on to resolve its argument form j
Goto(j) ==
    /\ stack' = ReplaceTop([Top EXCEPT !.i = j, !.trail = Seen])
    /\ mode' = "eval"
    /\ val' = Undefined

\* (if test then else...): entry, up to resolve(testExpression)
macro_if(n) ==
    /\ CanResolve
    /\ IF n < 2
       THEN Raise(ArityError)
       ELSE /\ Len(stack) < MaxStack
            /\ stack' = Push([BaseAct EXCEPT !.kind = "if", !.n = n, !.env0 = env])
            /\ UNCHANGED <<frames, env, closures, mode, val, err, unwound, tryForms>>
    /\ UNCHANGED heap
    /\ returned' = NotReturned

\* an if that goes on to its else forms after the then form
if_value_both ==
    /\ mode = "value"
    /\ stack # <<>>
    /\ Top.kind = "if"
    /\ IF Top.i = 1 /\ Truthy(val) THEN Goto(2)
       ELSE IF Top.i < Top.n THEN Goto(IF Top.i = 1 THEN 3 ELSE Top.i + 1)
       ELSE Return(IF Top.i = 1 THEN Null ELSE val)
    /\ UNCHANGED <<frames, env, closures, err, unwound, tryForms, forms>>
    /\ UNCHANGED heap
    /\ returned' = IF mode' = "value" THEN [Returning EXCEPT !.trail = Seen]
                   ELSE NotReturned

\* a form of the if has been resolved: the test, the then form or an else form
if_value ==
    /\ mode = "value"
    /\ stack # <<>>
    /\ Top.kind = "if"
    /\ IF Top.i = 1
       THEN IF Truthy(val) THEN Goto(2)
            ELSE IF Top.n >= 3 THEN Goto(3)
            ELSE Return(Null)
       ELSE IF Top.i = 2 THEN Return(val)
       ELSE IF Top.i < Top.n THEN Goto(Top.i + 1)
       ELSE Return(val)
    /\ UNCHANGED <<frames, env, closures, err, unwound, tryForms, forms>>
    /\ UNCHANGED heap
    /\ returned' = IF mode' = "value" THEN [Returning EXCEPT !.trail = Seen]
                   ELSE NotReturned

\* (when test body...): entry, up to resolve(arguments[0])
macro_when(n) ==
    /\ CanResolve
    /\ IF n = 0
       THEN Raise(ArityError)
       ELSE /\ Len(stack) < MaxStack
            /\ stack' = Push([BaseAct EXCEPT !.kind = "when", !.n = n, !.env0 = env])
            /\ UNCHANGED <<frames, env, closures, mode, val, err, unwound, tryForms>>
    /\ UNCHANGED heap
    /\ returned' = NotReturned

\* a when that resolves its body whatever the test says
when_value_always ==
    /\ mode = "value"
    /\ stack # <<>>
    /\ Top.kind = "when"
    /\ IF Top.i < Top.n THEN Goto(Top.i + 1)
       ELSE Return(IF Top.i = 1 THEN Undefined ELSE val)
    /\ UNCHANGED <<frames, env, closures, err, unwound, tryForms, forms>>
    /\ UNCHANGED heap
    /\ returned' = IF mode' = "value" THEN [Returning EXCEPT !.trail = Seen]
                   ELSE NotReturned

\* a form of the when has been resolved: the test or a body form; the value of
\* the last element of an empty args array is undefined
when_value ==
    /\ mode = "value"
    /\ stack # <<>>
    /\ Top.kind = "when"
    /\ IF Top.i = 1
       THEN IF ~Truthy(val) THEN Return(Null)
            ELSE IF Top.n = 1 THEN Return(Undefined)
            ELSE Goto(2)
       ELSE IF Top.i < Top.n THEN Goto(Top.i + 1)
       ELSE Return(val)
    /\ UNCHANGED <<frames, env, closures, err, unwound, tryForms, forms>>
    /\ UNCHANGED heap
    /\ returned' = IF mode' = "value" THEN [Returning EXCEPT !.trail = Seen]
                   ELSE NotReturned

\* a getfunc that accepts functions only
Callable_function_only(object) ==
    IF object.t = "function" THEN object ELSE Absent

\* the value getfunc finds for an object, Absent when it throws
Callable(object) ==
    IF object.t = "function" THEN object
    ELSE IF object.t = "macro" THEN Fn(object.v)
    ELSE Absent

\* (getfunc symbol), called with n argument forms
macro_getfunc(n, symbol) ==
    /\ CanResolve
    /\ IF n # 1 THEN Raise(ArityError)
       ELSE IF env = 0 THEN Raise(TypeError)
       ELSE IF Callable(Env_get(frames, env, symbol)) = Absent
       THEN Raise(NotFunctionError)
       ELSE /\ Accepts(stack, Callable(Env_get(frames, env, symbol)))
            /\ val' = Callable(Env_get(frames, env, symbol))
            /\ mode' = "value"
            /\ UNCHANGED <<frames, env, closures, stack, err, unwound, tryForms>>
    /\ UNCHANGED heap
    /\ returned' = NotReturned

\* object[key] for the host objects as they are now
Property(object, key) == PropertyOf(heap, object, key)

\* the dotpath argument forms: symbols, and a number
Dotpaths ==
    { [type |-> "symbol", parts |-> <<"m">>],
      [type |-> "symbol", parts |-> <<"o", "m">>],
      [type |-> "symbol", parts |-> <<"k">>],
      [type |-> "symbol", parts |-> <<"k", "o", "m">>],
      [type |-> "number", parts |-> <<"1">>] }

\* a walk that stays at the object it starts from
Walk_none(object, parts, i) == object

\* object = object[parts[i]] for i, i+1, ... up to the second-to-last part;
\* Absent when a step throws
RECURSIVE Walk(_, _, _)
Walk(object, parts, i) ==
    IF i >= Len(parts) THEN object
    ELSE IF Unsubscriptable(object) THEN Absent
    ELSE Walk(Property(object, parts[i]), parts, i + 1)

\* the methods of the host objects return their receiver
Apply(method, receiver, args) == receiver

\* (funcall object dotpath args...): entry, up to resolve(object)
macro_funcall(n, dotpath) ==
    /\ CanResolve
    /\ IF n < 2
       THEN Raise(ArityError)
       ELSE /\ Len(stack) < MaxStack
            /\ stack' = Push([BaseAct EXCEPT !.kind = "funcall", !.n = n,
                                 !.op = dotpath.type, !.names = dotpath.parts,
                                 !.env0 = env])
            /\ UNCHANGED <<frames, env, closures, mode, val, err, unwound, tryForms>>
    /\ UNCHANGED heap
    /\ returned' = NotReturned

\* the object has been resolved: the dotpath is walked and the function checked;
\* or an argument has been resolved; after the last one the function is applied
funcall_value ==
    /\ mode = "value"
    /\ stack # <<>>
    /\ Top.kind = "funcall"
    /\ IF Top.i = 1
       THEN LET object == Walk(val, Top.names, 1)
                funckey == Top.names[Len(Top.names)]
            IN IF Top.op \notin {"symbol", "keyword", "string"}
               THEN Raise(NotFunctionError)
               ELSE IF Unsubscriptable(object) THEN Raise(TypeError)
               ELSE IF Property(object, funckey).t # "function"
               THEN Raise(NotFunctionError)
               ELSE IF Top.n = 2
               THEN Return(Apply(Property(object, funckey), object, <<>>))
               ELSE /\ stack' = ReplaceTop([Top EXCEPT !.i = 3, !.prev = object,
                                               !.trail = Seen])
                    /\ mode' = "eval"
                    /\ val' = Undefined
       ELSE IF Top.i < Top.n THEN Goto(Top.i + 1)
       ELSE Return(Apply(Property(Top.prev, Top.names[Len(Top.names)]), Top.prev,
                         [k \in 1..(Top.n - 2) |-> Seen[k + 1].v]))
    /\ UNCHANGED <<frames, env, closures, forms>>
    /\ IF mode' = "throw" THEN UNCHANGED tryForms
       ELSE UNCHANGED <<err, unwound, tryForms>>
    /\ UNCHANGED heap
    /\ returned' = IF mode' = "value" THEN [Returning EXCEPT !.trail = Seen]
                   ELSE NotReturned

\* programs of if, when, getfunc, funcall and setq
ControlForms == 4
MaxControlArgs == 4
ControlAtoms == { Null, Num(1) }
GetfuncNames == Names \cup BuiltinNames

NextControl ==
    \/ \E v \in ControlAtoms : ResolveAtom(v)
    \/ \E s \in DataNames \cup HostNames : ResolveSymbol(s)
    \/ Driver
    \/ Uncaught
    \/ Unwind
    \/ \E s \in Names : macro_setq(s)
    \/ setq_assign
    \/ \E n \in 0..MaxControlArgs : macro_if(n)
    \/ if_value
    \/ \E n \in 0..MaxControlArgs : macro_when(n)
    \/ when_value
    \/ \E n \in 0..2, s \in GetfuncNames : macro_getfunc(n, s)
    \/ \E n \in 0..MaxControlArgs, dotpath \in Dotpaths : macro_funcall(n, dotpath)
    \/ funcall_value

SpecControl == Start(ControlForms) /\ [][NextControl]_vars

\* the same programs with comparisons and not, written with too few argument
\* forms or with enough
ArityForms == 3

NextArity ==
    \/ NextControl
    \/ \E op \in ComparatorOps, n \in 0..2 : macro_comparator(op, n)
    \/ comparator_value
    \/ \E n \in 0..1 : macro_predicate("not", n)
    \/ predicate_value

SpecArity == Start(ArityForms) /\ [][NextArity]_vars

\* ------------------------------------------------------------------ Env calls
\* the methods of Env called one at a time on the current environment, over a
\* host namespace that is the parent of the top-level Env either as the symbols
\* of an Env of its own or as the plain object itself
EnvCalls == 3

EnvValues == { Undefined, Null, Num(0), Num(1) }
EnvNames == {"x", "toString"}
GetPaths ==
    { <<"x">>, <<"toString">>, <<"x", "k">>, <<"obj", "k">>, <<"obj", "o", "k">>,
      <<"obj", "o", "o", "k">>, <<"window", "x">> }
SetPaths ==
    { <<"x">>, <<"x", "k">>, <<"obj", "k">>, <<"obj", "o", "k">>,
      <<"obj", "o", "o", "k">>, <<"obj", "o", "o", "o", "k">>, <<"window", "x">> }
EnvHostNamespaces ==
    { WithHostObject([NoSymbols EXCEPT !["window"] = Global]) }
    \cup { WithHostObject([NoSymbols EXCEPT !["window"] = Global, !["x"] = v]) :
               v \in EnvValues }

\* the call that has been made last: the method, the name split at its dots,
\* the value argument and the Env it was called on
Called(method, parts, value) ==
    << [BaseAct EXCEPT !.kind = method, !.names = parts, !.prev = value,
                       !.env0 = env] >>

StartEnv ==
    /\ \E global \in EnvHostNamespaces, parent \in {0, NotEnv} :
          frames = << [parent |-> parent, symbols |-> global],
                      [parent |-> HostEnv, symbols |-> Builtins] >>
    /\ env = RootEnv
    /\ closures = <<>>
    /\ stack = <<>>
    /\ mode = "eval"
    /\ val = Undefined
    /\ err = Undefined
    /\ unwound = NotUnwound
    /\ returned = NotReturned
    /\ tryForms = TryFormTable
    /\ heap = HostObjects
    /\ forms = EnvCalls

\* new Env(lisp.env), made the current environment
Env_init ==
    /\ forms > 0 /\ Len(frames) < MaxFrames
    /\ frames' = Append(frames, NewEnv(env))
    /\ env' = Len(frames) + 1
    /\ stack' = Called("init", <<>>, Undefined)
    /\ mode' = "value" /\ val' = Undefined /\ err' = Undefined
    /\ forms' = forms - 1
    /\ returned' = NotReturned
    /\ UNCHANGED <<closures, unwound, tryForms, heap>>

call_let(symbol, value) ==
    /\ forms > 0
    /\ frames' = Env_let(frames, env, symbol, value)
    /\ stack' = Called("let", <<symbol>>, value)
    /\ mode' = "value" /\ val' = Undefined /\ err' = Undefined
    /\ forms' = forms - 1
    /\ returned' = NotReturned
    /\ UNCHANGED <<env, closures, unwound, tryForms, heap>>

call_has(symbol) ==
    /\ forms > 0
    /\ stack' = Called("has", <<symbol>>, Undefined)
    /\ mode' = "value" /\ err' = Undefined
    /\ val' = IF Env_has(frames, env, symbol) THEN True ELSE False
    /\ forms' = forms - 1
    /\ returned' = NotReturned
    /\ UNCHANGED <<frames, env, closures, unwound, tryForms, heap>>

call_get(parts) ==
    /\ forms > 0
    /\ stack' = Called("get", parts, Undefined)
    /\ IF Env_get_path(frames, heap, env, parts) = Absent
       THEN mode' = "throw" /\ err' = TypeError /\ val' = Undefined
       ELSE mode' = "value" /\ err' = Undefined
            /\ val' = Env_get_path(frames, heap, env, parts)
    /\ forms' = forms - 1
    /\ returned' = NotReturned
    /\ UNCHANGED <<frames, env, closures, unwound, tryForms, heap>>

call_set(parts, value) ==
    /\ forms > 0
    /\ stack' = Called("set", parts, value)
    /\ val' = Undefined
    /\ IF Len(parts) > 1
       THEN IF Env_get_path(frames, heap, env, Prefix(parts)) = Absent
            THEN mode' = "throw" /\ err' = TypeError
                 /\ heap' = heap /\ frames' = frames
            ELSE IF Unsubscriptable(Env_get_path(frames, heap, env, Prefix(parts)))
            THEN mode' = "throw" /\ err' = UnsubscriptableError
                 /\ heap' = heap /\ frames' = frames
            ELSE /\ mode' = "value" /\ err' = Undefined
                 /\ heap' = Env_set_path(frames, heap, env, parts, value)
                 /\ frames' = Env_set_path_global(frames, heap, env, parts, value)
       ELSE /\ heap' = heap
            /\ IF Env_set_throws(frames, env, parts[1])
               THEN mode' = "throw" /\ err' = TypeError /\ frames' = frames
               ELSE /\ mode' = "value" /\ err' = Undefined
                    /\ frames' = Env_set(frames, env, parts[1], value)
    /\ forms' = forms - 1
    /\ returned' = NotReturned
    /\ UNCHANGED <<env, closures, unwound, tryForms>>

NextEnv ==
    \/ Env_init
    \/ \E symbol \in EnvNames, value \in EnvValues : call_let(symbol, value)
    \/ \E symbol \in EnvNames : call_has(symbol)
    \/ \E parts \in GetPaths : call_get(parts)
    \/ \E parts \in SetPaths, value \in EnvValues : call_set(parts, value)

SpecEnv == StartEnv /\ [][NextEnv]_vars

\* ------------------------------------------------------------------ balance
\* programs of let, setq, lambda and defun in which nothing throws
BalanceForms == 6

NextBalance ==
    \/ NextClosure
    \/ \E s \in FunctionNames, arglist \in ArgLists : macro_defun(s, arglist)
    \/ \E s \in FunctionNames, args \in Arguments : defun_call(s, args)
    \/ defun_return

SpecBalance == Start(BalanceForms) /\ [][NextBalance]_vars

\* ------------------------------------------------------------------ steps
\* the step a formula is about, as an action
LetBinds ==
    /\ mode = "value" /\ stack # <<>> /\ Top.kind = "let" /\ Top.i <= Len(Top.names)
    /\ mode' = "eval"
LetExits ==
    /\ mode = "eval" /\ stack # <<>> /\ Top.kind = "let" /\ Top.i > Len(Top.names)
    /\ mode' = "value" /\ stack' = Pop
SetqAssigns ==
    /\ mode = "value" /\ stack # <<>> /\ Top.kind = "setq"
    /\ mode' = "value"
DefunCalls ==
    /\ mode = "eval" /\ Len(stack') = Len(stack) + 1
    /\ stack'[Len(stack')].kind = "defun"
\* a try with a catch clause is about to catch the error
Catching ==
    /\ mode = "throw" /\ stack # <<>> /\ Top.kind = "try"
    /\ ~Top.caught /\ Top.catchExpression # NoCatch

\* a macro is invoked with a number of argument forms that it refuses
TooFewArguments ==
    \/ \E op \in ComparatorOps, n \in 0..1 : macro_comparator(op, n)
    \/ \E n \in 0..1 : macro_if(n)
    \/ macro_when(0)
    \/ macro_predicate("not", 0)
    \/ \E n \in 0..1, dotpath \in Dotpaths : macro_funcall(n, dotpath)
    \/ \E n \in {0, 2}, s \in GetfuncNames : macro_getfunc(n, s)

\* funcall applies the function and returns
FuncallApplies ==
    /\ mode = "value" /\ stack # <<>> /\ Top.kind = "funcall"
    /\ mode' = "value" /\ stack' = Pop
\* the value of the first argument form of the invocation on top
ResolvedObject == IF Top.i = 1 THEN val ELSE Top.trail[1].v
\* the argument forms after the dotpath were resolved in order, after the object
ArgumentsInOrder(t, n) ==
    /\ Len(t) = n - 1
    /\ t[1].i = 1
    /\ \A k \in 2..Len(t) : t[k].i = k + 1

\* an error leaves a try that has no catch clause
TryPropagates ==
    /\ mode = "throw" /\ stack # <<>> /\ Top.kind = "try"
    /\ ~Top.caught /\ Top.catchExpression = NoCatch
\* a try returns without an error
TryExits ==
    /\ mode = "eval" /\ stack # <<>> /\ Top.kind = "try" /\ ~Top.caught
    /\ mode' = "value" /\ stack' = Pop

C2_SetqInnermostOwner ==
    [][ (SetqAssigns /\ Env_has(frames, env, Top.names[1])) =>
           frames' = [frames EXCEPT
                         ![Owner(frames, env, Top.names[1])].symbols[Top.names[1]] = val]
      ]_vars

\* a setq inside a let that shadows an outer x has assigned the let's x
C2_Witness ==
    /\ returned.kind = "setq"
    /\ mode = "value" /\ stack # <<>> /\ Top.kind = "let"
    /\ env > RootEnv
    /\ frames[env].symbols["x"] = val
    /\ val = Null
    /\ Env_has(frames, frames[env].parent, "x")
    /\ Env_get(frames, frames[env].parent, "x") = Num(0)

\* the elements of a sequence
Range(seq) == { seq[k] : k \in 1..Len(seq) }

\* C3: in a function made by lambda inside a let that binds s, where s is no
\* parameter, a setq of s in the body writes the let's binding of s, and a lookup
\* of s in the body reads it.
C3_ClosureSharesBinding ==
    [][ (/\ SetqAssigns
         /\ Len(stack) >= 2
         /\ stack[Len(stack) - 1].kind = "lambda"
         /\ env = stack[Len(stack) - 1].fenv
         /\ Top.names[1] \notin Range(stack[Len(stack) - 1].names) \cup {"this"}
         /\ frames[env].parent # 0
         /\ hasOwnProperty(frames, frames[env].parent, Top.names[1]))
        => /\ Env_get(frames, env, Top.names[1])
                = frames[frames[env].parent].symbols[Top.names[1]]
           /\ frames' = [frames EXCEPT
                            ![frames[env].parent].symbols[Top.names[1]] = val]
      ]_vars

\* inside a call of a lambda made in a let that binds x, (setq x (1+ x)) has
\* raised the let's x
C3_Witness ==
    /\ returned.kind = "setq"
    /\ mode = "value" /\ Len(stack) >= 2
    /\ Top.kind = "lambda" /\ env = Top.fenv /\ Top.names = <<>>
    /\ stack[Len(stack) - 1].kind = "let"
    /\ frames[frames[env].parent].parent = stack[Len(stack) - 1].env0
    /\ frames[frames[env].parent].symbols["x"] = Num(2)
    /\ val = Num(2)

\* C4: two activations of lambda functions never bind their parameters in the
\* same frame.
C4_FreshFramePerCall ==
    \A j, k \in 1..Len(stack) :
        (j < k /\ stack[j].kind = "lambda" /\ stack[k].kind = "lambda")
            => stack[j].fenv # stack[k].fenv

\* C5: when a try catches an error that has left a let, lisp.env is the frame
\* that was current before the let was entered.
C5_LetRestoresOnError ==
    (Catching /\ unwound.kind = "let") => env = unwound.env0

\* C6: when a try catches an error that has left a function made by lambda or
\* defun, lisp.env is the caller's frame.
C6_CallRestoresOnError ==
    (Catching /\ unwound.kind \in FunctionKinds) => env = unwound.env0

\* the frames a lookup from e passes
RECURSIVE Chain(_, _)
Chain(fr, e) == IF e \notin DOMAIN fr THEN {} ELSE {e} \cup Chain(fr, fr[e].parent)

C8_DefunBindsInOwnFrame ==
    [][ DefunCalls => \A j \in 1..Len(frames) : frames'[j] = frames[j] ]_vars

\* the try form of invocation a was written with a (catch ...) clause
HasCatchClause(a) == a.catchExpression # NoCatch \/ a.form # 0

\* C10: an error raised in the body of a try written with a catch clause does
\* not leave the try: the body is abandoned and the handler is called, once,
\* with the error value bound to its parameter (if it has one).
C10_TryCatches ==
    [][ (/\ mode = "throw" /\ stack # <<>>
         /\ Top.kind = "try" /\ ~Top.caught /\ HasCatchClause(Top))
        => \/ UNCHANGED vars
           \/ /\ mode' = "eval"
              /\ Len(stack') = Len(stack) + 1
              /\ stack'[Len(stack)].caught
              /\ stack'[Len(stack')].kind = "lambda"
              /\ \A p \in Range(stack'[Len(stack')].names) :
                    frames'[env'].symbols[p] = err
      ]_vars

\* the value v decides the result of invocation a, which has taken up fewer
\* argument forms than it was written with
Decisive(a, v) ==
    /\ a.i < a.n
    /\ \/ a.kind = "or" /\ Truthy(v)
       \/ a.kind = "predicate" /\ a.op = "and" /\ ~Truthy(v)
       \/ a.kind = "predicate" /\ a.op = "not" /\ Truthy(v)
       \/ a.kind = "predicate" /\ a.op \notin {"and", "not"} /\ ~Test(a.op, v)
       \/ a.kind = "comparator" /\ a.i >= 2 /\ ~Compare(a.op, a.prev, v)

\* C9: when the value of an argument form decides the result of and, or, not,
\* a comparison or an is-* predicate, the macro returns at once: it resolves no
\* further argument form, so that no binding changes and no form is taken up.
C9_ShortCircuit ==
    [][ (/\ mode = "value" /\ stack # <<>>
         /\ Top.kind \in LogicKinds /\ Decisive(Top, val))
        => /\ stack' = Pop
           /\ mode' = "value"
           /\ val' \in {True, False}
           /\ UNCHANGED <<frames, env, forms>>
      ]_vars

\* (or e1 e2 e3) has returned true after e2, with a form of the program left
\* to resolve, and e1 was a setq that has bound x
C9_Witness ==
    /\ returned.kind = "or" /\ returned.i = 2 /\ returned.n = 3
    /\ mode = "value" /\ val = True
    /\ forms > 0
    /\ frames[RootEnv].symbols["x"] = Null

\* the number of names of the invocation on top
NamesOnTop == IF stack = <<>> THEN 0 ELSE Len(Top.names)

\* a binding expression of the let on top, after the first, is the symbol of
\* name k of the let, bound earlier by the same let
EarlierNameResolves(k) ==
    /\ mode = "eval" /\ stack # <<>> /\ Top.kind = "let"
    /\ Top.i <= Len(Top.names) /\ k < Top.i
    /\ env # 0 /\ Top.env0 # 0
    /\ ResolveSymbol(Top.names[k])

\* C11 as the spec states it: a binding expression of a let that references a
\* name bound earlier in the same let sees the binding the name has outside the
\* let.
C11_BindingExprsSeeOuter ==
    [][ \A k \in 1..NamesOnTop :
           EarlierNameResolves(k) => val' = Env_get(frames, Top.env0, Top.names[k])
      ]_vars

\* C11 amended: each binding of a let is made, as soon as its expression is
\* resolved, in the frame that is current, and a later binding expression of
\* the same let that references the name sees that binding, made by the let.
C11_BindingExprsSeeEarlier ==
    [][ /\ LetBinds => frames'[env'].symbols[Top.names[Top.i]] = val
        /\ \A k \in 1..NamesOnTop :
              EarlierNameResolves(k) =>
                 /\ hasOwnProperty(frames, env, Top.names[k])
                 /\ val' = frames[env].symbols[Top.names[k]]
      ]_vars

\* in (let ((x (1+ x)) (x x)) ...), where x was 0 outside, the second binding
\* expression has resolved to 1
C11_Witness ==
    /\ mode = "value" /\ stack # <<>> /\ Top.kind = "let"
    /\ Top.names = <<"x", "x">> /\ Top.i = 2
    /\ val = Num(1)
    /\ frames[env].symbols["x"] = Num(1)
    /\ frames[env].parent = Top.env0
    /\ Env_get(frames, Top.env0, "x") = Num(0)

\* C12: when a let exits, the names visible are those visible from the frame
\* that was current before the let; and while a let is in progress, a step
\* that changes a binding of a frame outside the let (a frame of the chain
\* that was current before it, the host namespace included) is a setq.
C12_LetLeavesOuterAlone ==
    [][ /\ (LetExits /\ env' # 0 /\ Top.env0 # 0) =>
              \A s \in Names : Env_has(frames', env', s) <=> Env_has(frames', Top.env0, s)
        /\ \A k \in 1..Len(stack) :
              (stack[k].kind = "let" /\ stack[k].env0 # 0) =>
                 \A j \in Chain(frames, stack[k].env0) :
                    frames'[j] # frames[j] => SetqAssigns
      ]_vars

C14_ArityErrorFirst ==
    [][ TooFewArguments =>
           /\ mode' = "throw"
           /\ err' = ArityError
           /\ stack' = stack
           /\ frames' = frames
           /\ env' = env
           /\ closures' = closures ]_vars

\* a macro has refused its argument forms inside a setq, which is still waiting
\* for its value and has assigned nothing
C14_Witness ==
    /\ mode = "throw"
    /\ err = ArityError
    /\ stack # <<>>
    /\ Top.kind = "setq"
    /\ ~Env_has(frames, env, Top.names[1])

\* C15: an if that returns has resolved its test once and then one branch: after
\* a truthy test only the then form, whose value it returns; after a falsy test
\* not the then form but every else form once, in order, returning the value of
\* the last one, or null when there is none.
C15_IfOneBranch ==
    returned.kind = "if" =>
       LET t == returned.trail IN
          /\ t[1].i = 1
          /\ IF Truthy(t[1].v)
             THEN /\ Len(t) = 2
                  /\ t[2].i = 2
                  /\ val = t[2].v
             ELSE /\ Len(t) = IF returned.n >= 3 THEN returned.n - 1 ELSE 1
                  /\ \A k \in 2..Len(t) : t[k].i = k + 1
                  /\ val = IF Len(t) = 1 THEN Null ELSE t[Len(t)].v

\* an if with two else forms has returned the value of the second after a
\* falsy test
C15_Witness ==
    /\ returned.kind = "if"
    /\ returned.n = 4
    /\ ~Truthy(returned.trail[1].v)
    /\ Len(returned.trail) = 3
    /\ returned.trail[2].v = Null
    /\ val = Num(1)

\* C16: a when that returns has resolved its test once; after a falsy test it
\* has resolved no body form and returns null; after a truthy test it has
\* resolved every body form once, in order, and returns the value of the last.
C16_WhenGuardsBody ==
    returned.kind = "when" =>
       LET t == returned.trail IN
          /\ t[1].i = 1
          /\ IF Truthy(t[1].v)
             THEN /\ Len(t) = returned.n
                  /\ \A k \in 1..Len(t) : t[k].i = k
                  /\ returned.n >= 2 => val = t[Len(t)].v
             ELSE /\ Len(t) = 1
                  /\ val = Null

\* a when with two body forms has returned the value of the second after a
\* truthy test
C16_Witness ==
    /\ returned.kind = "when"
    /\ returned.n = 3
    /\ Truthy(returned.trail[1].v)
    /\ Len(returned.trail) = 3
    /\ returned.trail[2].v = Num(1)
    /\ val = Null

\* C17: (getfunc name) looks name up, unevaluated, from lisp.env: it returns the
\* value bound when that is a function and the callable of the Macro when it is
\* a Macro, raises an error for every other value and for an unbound name, and
\* changes no frame, nor lisp.env.
C17_GetfuncReturnsCallable ==
    [][ \A s \in GetfuncNames :
           (macro_getfunc(1, s) /\ env # 0) =>
              LET object == Env_get(frames, env, s) IN
                 /\ frames' = frames /\ env' = env /\ stack' = stack
                 /\ object.t = "function" => (mode' = "value" /\ val' = object)
                 /\ object.t = "macro" => (mode' = "value" /\ val' = Fn(object.v))
                 /\ object.t \notin {"function", "macro"} =>
                       (mode' = "throw" /\ err' = NotFunctionError) ]_vars

\* (setq f (getfunc when)) has got the callable of the built-in macro, f being
\* unbound still
C17_Witness ==
    /\ mode = "value"
    /\ val = Fn(0)
    /\ stack # <<>>
    /\ Top.kind = "setq"
    /\ Top.names[1] = "f"
    /\ env # 0
    /\ ~Env_has(frames, env, "f")
    /\ Env_get(frames, env, "when") = Macro(0)

\* C18 as stated: funcall applies the function with the resolved object as its
\* receiver, for dotpaths of one segment and of several, its arguments
\* resolved left to right.  (The host methods return their receiver.)
C18_ReceiverIsObject ==
    [][ FuncallApplies =>
           /\ val' = ResolvedObject
           /\ ArgumentsInOrder(returned'.trail, Top.n) ]_vars

\* C18: funcall applies the function with the object as its receiver that is
\* reached from the resolved object along all segments of the dotpath but the
\* last: the resolved object itself for one segment, its property named by the
\* first segment for two; its arguments are resolved left to right.
C18_ReceiverIsWalkedObject ==
    [][ FuncallApplies =>
           /\ Len(Top.names) <= 2
           /\ val' = IF Len(Top.names) = 1 THEN ResolvedObject
                     ELSE Property(ResolvedObject, Top.names[1])
           /\ ArgumentsInOrder(returned'.trail, Top.n) ]_vars

\* (funcall obj o.m 1) has returned: the method ran with obj.o as receiver
C18_Witness ==
    /\ returned.kind = "funcall"
    /\ returned.n = 3
    /\ returned.trail[1].v = Obj(1)
    /\ returned.trail[2].v = Num(1)
    /\ val = Obj(2)

\* C19: an error raised in the body of a try that has no catch clause leaves the
\* try as it is, for the caller of the try, and no further form is resolved on
\* the way; a try that returns without having resolved a body expression
\* returns null.
C19_TryWithoutCatch ==
    [][ /\ TryPropagates =>
              /\ mode' = "throw"
              /\ err' = err
              /\ stack' = Pop
              /\ forms' = forms
              /\ frames' = frames
        /\ (TryExits /\ Top.i = 1 /\ ~TrailingLambda(Top)) => val' = Null ]_vars

\* the program has resolved a try and the throw in its body, and the error has
\* left the try
C19_Witness ==
    /\ mode = "throw"
    /\ err = Num(1)
    /\ unwound.kind = "try"
    /\ forms = LetForms - 2

\* C20: setq assigns nothing before its expression has been resolved, and
\* resolves no form after it; it then assigns the value to the name and returns
\* that same value, and a lookup of the name from lisp.env right after it
\* yields the value returned.
C20_SetqReturnsAssigned ==
    [][ /\ (\E s \in Names : macro_setq(s)) => (frames' = frames /\ env' = env)
        /\ SetqAssigns =>
              /\ forms' = forms
              /\ stack' = Pop
              /\ env' = env
              /\ val' = val
              /\ Env_get(frames', env', Top.names[1]) = val' ]_vars

\* inside a let that binds x, (setq x (1+ x)) has returned 2 and x is 2
C20_Witness ==
    /\ returned.kind = "setq"
    /\ val = Num(2)
    /\ stack # <<>>
    /\ Top.kind = "let"
    /\ env # 0
    /\ hasOwnProperty(frames, env, "x")
    /\ Env_get(frames, env, "x") = Num(2)

\* C21: has(name) is true exactly when some frame of the chain or the host
\* namespace owns the name, whatever the value it is bound to (stated of the
\* names that no object inherits).
C21_HasIsOwnership ==
    [][\A symbol \in EnvNames \ PrototypeNames :
          call_has(symbol) =>
              (val' = True <=>
                  \E o \in Chain(frames, env) : hasOwnProperty(frames, o, symbol))]_vars

\* C24 as the spec states it: an assignment to a dotted name sets the last
\* segment as a property of the object the prefix resolves to and creates or
\* changes no binding in any frame or in the host namespace; when the prefix
\* resolves to undefined or null it raises an error and changes nothing.
C24_DottedAssignLeavesBindings ==
    [][\A parts \in SetPaths, value \in EnvValues :
          call_set(parts, value) /\ Len(parts) > 1 =>
              LET object == Env_get_path(frames, heap, env, Prefix(parts))
              IN /\ frames' = frames
                 /\ object \in {Undefined, Null} =>
                        mode' = "throw" /\ heap' = heap
                 /\ object.t = "object" =>
                        /\ mode' = "value"
                        /\ Env_get_path(frames', heap', env, parts) = value]_vars

\* C24 as the code has it: the same, except that a prefix which resolves to
\* the host namespace object itself makes the last segment a binding of the
\* host namespace; the frames are left alone in every case.
C24_DottedAssignSetsProperty ==
    [][\A parts \in SetPaths, value \in EnvValues :
          call_set(parts, value) /\ Len(parts) > 1 =>
              LET object == Env_get_path(frames, heap, env, Prefix(parts))
                  key == parts[Len(parts)]
              IN /\ \A e \in DOMAIN frames \ {HostEnv} : frames'[e] = frames[e]
                 /\ DOMAIN frames' = DOMAIN frames
                 /\ object # Global => frames' = frames
                 /\ object = Global =>
                        /\ frames'[HostEnv].symbols[key] = value
                        /\ \A s \in SymNames \ {key} :
                               frames'[HostEnv].symbols[s] = frames[HostEnv].symbols[s]
                 /\ object \in {Undefined, Null} =>
                        mode' = "throw" /\ heap' = heap
                 /\ object.t = "object" =>
                        /\ mode' = "value"
                        /\ Member(frames', heap', object, key) = value]_vars

\* a dotted assignment has set a property of a host object
C24_Witness ==
    /\ stack # <<>> /\ Top.kind = "set" /\ Top.names = <<"obj", "o", "k">>
    /\ mode = "value" /\ Top.prev = Null
    /\ heap[2]["k"] = Null /\ heap # HostObjects


\* C22: the lookup of a name without dots returns the value held by the
\* innermost frame that owns the name, also when that value is undefined or
\* falsy, otherwise the host namespace's value, and undefined when nothing
\* defines the name.
C22_LookupInnermostOwner ==
    [][\A symbol \in EnvNames :
          call_get(<<symbol>>) =>
              /\ mode' = "value"
              /\ val' = IF Owner(frames, env, symbol) # 0
                        THEN frames[Owner(frames, env, symbol)].symbols[symbol]
                        ELSE Get(frames[HostEnv].symbols, symbol)]_vars

\* C23: the lookup of a dotted path whose prefix is undefined (the head is
\* unbound, or an intermediate segment yields undefined) raises a type error
\* instead of returning a value.
C23_UndefinedPrefixRaises ==
    [][\A parts \in GetPaths :
          (/\ call_get(parts)
           /\ \E j \in 1..(Len(parts) - 1) :
                 Chase(frames, heap, Env_get(frames, env, parts[1]),
                       SubSeq(parts, 1, j), 2) = Undefined)
          => mode' = "throw" /\ err' = TypeError]_vars

\* C25: every evaluation of the same try form behaves the same: the trailing
\* (catch ...) the form was written with is its catch clause each time the form
\* is entered, and never one of its body expressions.
C25_TryFormStaysTheSame ==
    [][\A form \in 1..Len(TryFormTable) :
          macro_try(form, tryForms[form]) =>
              stack'[Len(stack')].catchExpression = TryFormTable[form]]_vars

\* C26: in programs where nothing throws, every let, every call of a function
\* made by lambda and every call of a function made by defun ends with the
\* current environment at the very frame it was at when that let or call
\* began, however they are nested.
C26_EnvBalanced ==
    [][returned'.kind \in {"let"} \cup FunctionKinds => env' = Top.env0]_vars

\* a defun function called in the body of a lambda function called in a let
\* has returned
C26_Witness ==
    /\ returned.kind = "defun"
    /\ Len(stack) = 2 /\ stack[1].kind = "let" /\ stack[2].kind = "lambda"
    /\ env = stack[2].fenv

\* C27: a try returns the value of the last body expression that has completed
\* (null if none has), both when no body expression raises and when one raises
\* and the catch clause handles the error; what the handler returns is
\* discarded, and the catch clause is not a body expression.
C27_TryReturnsLastBodyValue ==
    [][returned'.kind = "try" => val' = Top.ret]_vars

\* C28: a function made by defun resolves the free variables of its body in
\* the environment where the defun was evaluated, like a lambda: for every name
\* that is not a parameter, the binding its body reads and rewrites is the one
\* that environment sees, and not a let binding of the caller.
C28_DefunLexicalScope ==
    [][\A s \in FunctionNames, args \in Arguments :
          defun_call(s, args) =>
              \A x \in Names \ Range(closures[Callee(s)].arglist) :
                  Owner(frames', env', x)
                      = Owner(frames', closures[Callee(s)].site, x)]_vars

====
